---- MODULE Spec2Model ----
(***************************************************************************)
(* Model of the hospigen change-event bridge (src/bridge/main.py): the     *)
(* POST /pubsub/push handler, its helpers (namespace resolution, topic     *)
(* address, occurrence time, envelope, classification, coercion) and the   *)
(* two collaborators it calls (resource fetch, broker publish).            *)
(*                                                                         *)
(* JSON values are tagged records: [j |-> "null"], [j |-> "str", s |-> _], *)
(* [j |-> "num", n |-> _], [j |-> "arr", a |-> <<...>>] and                *)
(* [j |-> "obj", o |-> f] with f a function from keys to JSON values.      *)
(* [j |-> "raise"] stands for a Python exception leaving a helper.         *)
(*                                                                         *)
(* A request runs in stretches that end at an outbound call: Receive (to   *)
(* the fetch call, the publish call or the response), FetchReturn or       *)
(* FetchRaise, PublishReturn or PublishRaise. Spec follows one request     *)
(* over the full universe of bodies, resources and configurations;         *)
(* SpecPair follows two requests over a small universe; SpecEnv applies    *)
(* build_envelope twice; SpecClassify applies the routing block to one     *)
(* resource and action; SpecPath and SpecOccurred apply topic_path and     *)
(* occurred_at; SpecUpload follows one call of upload_bundles of the batch *)
(* uploader (src/services/synthea_runner/runner.py).                       *)
(***************************************************************************)
EXTENDS Integers, Sequences, FiniteSets, TLC

VARIABLES now, cfg, universe, reqs, builds, routed, applied, upload, probes

vars == <<now, cfg, universe, reqs, builds, routed, applied, upload, probes>>

\* ------------------------------------------------------------------ bounds
\* Highest reading of the wall clock (seconds since the model's epoch).
MaxClock == 2
\* Number of GET /health calls followed.
MaxProbes == 1
\* Most bundle files in the directory handed to upload_bundles.
MaxFiles == 2

\* ------------------------------------------------------------- JSON values
JNull == [j |-> "null"]
JStr(s) == [j |-> "str", s |-> s]
JNum(n) == [j |-> "num", n |-> n]
JArr(a) == [j |-> "arr", a |-> a]
JObj(o) == [j |-> "obj", o |-> o]
Raise == [j |-> "raise"]
Absent == [j |-> "absent"]
EmptyObj == JObj([k \in {} |-> JNull])
EmptyArr == JArr(<<>>)

\* An object literal from a function key -> value, keys bound to Absent left out.
MkObj(f) == JObj([k \in {x \in DOMAIN f : f[x] # Absent} |-> f[k]])

IsObj(v) == v.j = "obj"
IsArr(v) == v.j = "arr"
IsStr(v) == v.j = "str"
Has(v, k) == k \in DOMAIN v.o
\* dict.get(k) and dict.get(k, d)
Get(v, k) == IF k \in DOMAIN v.o THEN v.o[k] ELSE JNull
GetD(v, k, d) == IF k \in DOMAIN v.o THEN v.o[k] ELSE d
\* Python truthiness of a JSON value
Truthy(v) ==
  CASE v.j = "null" -> FALSE
    [] v.j = "str" -> v.s # ""
    [] v.j = "num" -> v.n # 0
    [] v.j = "arr" -> v.a # <<>>
    [] v.j = "obj" -> DOMAIN v.o # {}
    [] OTHER -> TRUE
\* `a or b`, an exception in a propagating
OrElse(a, b) == IF a = Raise THEN Raise ELSE IF Truthy(a) THEN a ELSE b
\* x.get(k) where x may not be a dict (AttributeError)
GetOf(x, k) == IF x = Raise THEN Raise ELSE IF IsObj(x) THEN Get(x, k) ELSE Raise
\* str(v) as an f-string renders it
PyStr(v) ==
  CASE v.j = "str" -> v.s
    [] v.j = "null" -> "None"
    [] v.j = "num" -> ToString(v.n)
    [] OTHER -> "object"
SeqRange(s) == {s[i] : i \in DOMAIN s}
\* a Python set or list used for membership only
PySet(e) == [j |-> "set", e |-> e]

\* str.lower() and str.upper() on the strings of the model's universe
LowerTable == [FINAL |-> "final", Final |-> "final", IMP |-> "imp", EMER |-> "emer",
               LABORATORY |-> "laboratory"]
UpperTable == [imp |-> "IMP", emer |-> "EMER", amb |-> "AMB"]
Lower(s) ==
  IF s \in DOMAIN LowerTable THEN LowerTable[s]
  ELSE IF s = "http://terminology.hl7.org/CodeSystem/observation-category"
       THEN "http://terminology.hl7.org/codesystem/observation-category"
       ELSE s
Upper(s) == IF s \in DOMAIN UpperTable THEN UpperTable[s] ELSE s
\* (x or "").lower() / .upper(): a truthy non-string has no such method
LowerOf(x) == LET v == OrElse(x, JStr("")) IN IF IsStr(v) THEN JStr(Lower(v.s)) ELSE Raise
UpperOf(x) == LET v == OrElse(x, JStr("")) IN IF IsStr(v) THEN JStr(Upper(v.s)) ELSE Raise

\* ------------------------------------------------------------ env / topics
RESULTS_PRELIM_TOPIC == "results.prelim"
RESULTS_FINAL_TOPIC == "results.final.v1"
ORDERS_CREATED_TOPIC == "orders.created"
MEDS_ORDERED_TOPIC == "meds.ordered"
MEDS_ADMINISTERED_TOPIC == "meds.administered"
PROCEDURES_PERFORMED_TOPIC == "procedures.performed"
NOTES_CREATED_TOPIC == "notes.created"
SCHED_CREATED_TOPIC == "scheduling.created"
ED_TRIAGE_TOPIC == "ed.triage"
ADT_ADMIT_TOPIC == "adt.admit"
ADT_TRANSFER_TOPIC == "adt.transfer"
ADT_DISCHARGE_TOPIC == "adt.discharge"
RPM_OBS_CREATED_TOPIC == "rpm.observation.created"
LOGIC_ID == "bridge.router.v4"

\* ---------------------------------------------------------------- utilities
\* now_iso(): the clock reading c as an ISO-8601 UTC string, whole seconds
now_iso(c) == "2026-01-01T00:00:0" \o ToString(c) \o "+00:00"

\* get_project_id(): PROJECT_ENV if set, else the project of the ambient
\* credentials, None when they carry none. (The process holds credentials:
\* PUBLISHER is built from them at import.)
get_project_id(c) ==
  IF Truthy(c.PROJECT_ENV) THEN c.PROJECT_ENV ELSE c.ambient

\* the short topic names the handler routes to
ShortTopics ==
  {RESULTS_PRELIM_TOPIC, RESULTS_FINAL_TOPIC, ORDERS_CREATED_TOPIC, MEDS_ORDERED_TOPIC,
   MEDS_ADMINISTERED_TOPIC, PROCEDURES_PERFORMED_TOPIC, NOTES_CREATED_TOPIC,
   SCHED_CREATED_TOPIC, ED_TRIAGE_TOPIC, ADT_ADMIT_TOPIC, ADT_TRANSFER_TOPIC,
   ADT_DISCHARGE_TOPIC, RPM_OBS_CREATED_TOPIC}
\* the namespaces of the universe as topic_path renders them (None included)
ProjectTexts == {"proj-env", "proj-amb", "my-proj", "None"}
\* topic names that start with "projects/" in the model's universe: the
\* qualified names given as input and every address topic_path can build
QualifiedTopics ==
  {"projects/other-proj/topics/results.final.v1", "projects/my-proj/topics/my-topic",
   "projects/dangling"}
  \cup {"projects/" \o p \o "/topics/" \o t : p \in ProjectTexts, t \in ShortTopics}
\* topic_path without the test for an address already qualified
topic_path_prefixing(topic, project_id, c) ==
  LET pid == OrElse(project_id, get_project_id(c))
  IN IF pid = Raise THEN Raise
     ELSE JStr("projects/" \o PyStr(pid) \o "/topics/" \o topic)
StartsWithProjects(t) == t \in QualifiedTopics

\* topic_path(topic, project_id)
topic_path(topic, project_id, c) ==
  IF StartsWithProjects(topic) THEN JStr(topic)
  ELSE LET pid == OrElse(project_id, get_project_id(c))
       IN IF pid = Raise THEN Raise
          ELSE JStr("projects/" \o PyStr(pid) \o "/topics/" \o topic)

\* references that contain "Patient/"
PatientMarked == {"Patient/123", "Patient/p1"}

\* resource_patient_ref(res), the Appointment loop over participant[].actor:
\* the first participant decides that either raises (not a dict, or its actor
\* is not one) or carries a reference containing "Patient/".
AppointmentPatientRef(res) ==
  LET ps == OrElse(Get(res, "participant"), EmptyArr)
  IN IF ~IsArr(ps) THEN Raise
     ELSE LET actor(i) == OrElse(GetOf(ps.a[i], "actor"), EmptyObj)
              ref(i) == GetOf(actor(i), "reference")
              bad(i) == ref(i) = Raise
              hit(i) == ~bad(i) /\ IsStr(ref(i)) /\ ref(i).s \in PatientMarked
              stops == {i \in DOMAIN ps.a : bad(i) \/ hit(i)}
          IN IF stops = {} THEN JNull
             ELSE LET i0 == CHOOSE i \in stops : \A k \in stops : i <= k
                  IN IF bad(i0) THEN Raise ELSE ref(i0)

resource_patient_ref(res) ==
  LET subj == OrElse(Get(res, "subject"), EmptyObj)
  IN IF IsObj(subj) /\ IsStr(Get(subj, "reference")) THEN Get(subj, "reference")
     ELSE IF Get(res, "resourceType") = JStr("Appointment")
          THEN AppointmentPatientRef(res)
          ELSE JNull

\* res.get("meta", {}).get("lastUpdated")
MetaLastUpdated(res) == GetOf(GetD(res, "meta", EmptyObj), "lastUpdated")
\* (res.get(k) or {}).get("start")
PeriodStart(res, k) == GetOf(OrElse(Get(res, k), EmptyObj), "start")

\* occurred_at(res), the clock read as c by now_iso()
occurred_at(res, c) ==
  LET rt == Get(res, "resourceType")
      tail == OrElse(MetaLastUpdated(res), JStr(now_iso(c)))
  IN CASE rt = JStr("Observation") ->
            OrElse(Get(res, "effectiveDateTime"), OrElse(Get(res, "issued"), tail))
       [] rt = JStr("ServiceRequest") -> OrElse(Get(res, "authoredOn"), tail)
       [] rt = JStr("MedicationRequest") -> OrElse(Get(res, "authoredOn"), tail)
       [] rt = JStr("MedicationAdministration") ->
            IF Truthy(Get(res, "effectiveDateTime")) THEN Get(res, "effectiveDateTime")
            ELSE OrElse(PeriodStart(res, "effectivePeriod"), tail)
       [] rt = JStr("Procedure") ->
            IF Truthy(Get(res, "performedDateTime")) THEN Get(res, "performedDateTime")
            ELSE OrElse(PeriodStart(res, "performedPeriod"), tail)
       [] rt = JStr("DocumentReference") -> OrElse(Get(res, "date"), tail)
       [] rt = JStr("Appointment") -> OrElse(Get(res, "start"), tail)
       [] rt = JStr("Encounter") -> OrElse(PeriodStart(res, "period"), tail)
       [] OTHER -> tail

\* hashlib.sha256(src).hexdigest(): injective on its input in the model
sha256(src) == "sha256(" \o src \o ")"

\* json.dumps(v, separators=(",", ":")): the text that json.loads reads back as v
\* json.dumps(v, separators=(",", ":")) as the sequence of tokens of the text
\* it writes: punctuation, null, one token per string and per number. The
\* separators leave no blanks between tokens. A dict is written key by key in
\* its iteration order, one fixed order per dict.
RECURSIVE json_dumps(_), DumpItems(_), DumpMembers(_, _), KeyOrder(_)
Punct(c) == [t |-> c]
\* a scalar rendered through str(), as a serialiser falling back on str would
ScalarToken_str(v) == [t |-> "str", s |-> PyStr(v)]
ScalarToken(v) ==
  CASE v.j = "null" -> [t |-> "null"]
    [] v.j = "str" -> [t |-> "str", s |-> v.s]
    [] v.j = "num" -> [t |-> "num", n |-> v.n]
KeyOrder(ks) ==
  IF ks = {} THEN <<>>
  ELSE LET k == CHOOSE x \in ks : TRUE IN <<k>> \o KeyOrder(ks \ {k})
DumpItems(a) ==
  IF a = <<>> THEN <<>>
  ELSE IF Len(a) = 1 THEN json_dumps(a[1])
  ELSE json_dumps(a[1]) \o <<Punct(",")>> \o DumpItems(Tail(a))
DumpMembers(o, ks) ==
  IF ks = <<>> THEN <<>>
  ELSE LET m == <<[t |-> "str", s |-> ks[1]], Punct(":")>> \o json_dumps(o[ks[1]])
       IN IF Len(ks) = 1 THEN m ELSE m \o <<Punct(",")>> \o DumpMembers(o, Tail(ks))
json_dumps(v) ==
  CASE v.j = "arr" -> <<Punct("[")>> \o DumpItems(v.a) \o <<Punct("]")>>
    [] v.j = "obj" -> <<Punct("{")>> \o DumpMembers(v.o, KeyOrder(DOMAIN v.o)) \o <<Punct("}")>>
    [] OTHER -> <<ScalarToken(v)>>

\* the string build_envelope hashes into event_id
event_hash_src(rtype, rid, occ) == PyStr(rtype) \o ":" \o PyStr(rid) \o ":" \o PyStr(occ)

\* build_envelope with the publish time hashed into event_id as well (the
\* variant C3 is checked against)
build_envelope_stamped(topic, res, c) ==
  LET rid == GetD(res, "id", JStr("no-id"))
      rtype == GetD(res, "resourceType", JStr("Unknown"))
      occ == occurred_at(res, c)
      pref == resource_patient_ref(res)
  IN IF occ = Raise \/ pref = Raise THEN Raise
     ELSE [event_id |-> sha256(event_hash_src(rtype, rid, occ) \o ":" \o now_iso(c)),
           topic |-> topic,
           occurred_at |-> occ,
           published_at |-> now_iso(c),
           patient_ref |-> pref,
           resource_type |-> rtype,
           resource_id |-> rid,
           resource |-> json_dumps(res),
           provenance |-> [source_system |-> "gcp.fhir.changes",
                           logic_id |-> LOGIC_ID,
                           inputs_span |-> "[" \o PyStr(occ) \o "," \o now_iso(c) \o "]",
                           trace |-> JNull]]

\* build_envelope(topic, res), the clock read as c
build_envelope(topic, res, c) ==
  LET rid == GetD(res, "id", JStr("no-id"))
      rtype == GetD(res, "resourceType", JStr("Unknown"))
      occ == occurred_at(res, c)
      pref == resource_patient_ref(res)
  IN IF occ = Raise \/ pref = Raise THEN Raise
     ELSE [event_id |-> sha256(event_hash_src(rtype, rid, occ)),
           topic |-> topic,
           occurred_at |-> occ,
           published_at |-> now_iso(c),
           patient_ref |-> pref,
           resource_type |-> rtype,
           resource_id |-> rid,
           resource |-> json_dumps(res),
           provenance |-> [source_system |-> "gcp.fhir.changes",
                           logic_id |-> LOGIC_ID,
                           inputs_span |-> "[" \o PyStr(occ) \o "," \o now_iso(c) \o "]",
                           trace |-> JNull]]
\* ---------------------------------------------------------- routing helpers
CategorySystems == {"http://terminology.hl7.org/codesystem/observation-category",
                    "http://terminology.hl7.org/CodeSystem/observation-category",
                    "http://hl7.org/fhir/observation-category"}
LOINC == "http://loinc.org"
\* the allow-list without its last entry (BMI)
VITALS_short == {<<JStr(LOINC), JStr(code)>> :
                   code \in {"59408-5", "8867-4", "9279-1", "8310-5", "8480-6",
                             "8462-4", "8302-2", "29463-7"}}
VITALS == {<<JStr(LOINC), JStr(code)>> :
             code \in {"59408-5", "8867-4", "9279-1", "8310-5", "8480-6",
                       "8462-4", "8302-2", "29463-7", "39156-5"}}

\* `for x in (v or [])`: the list iterated, Raise when v is truthy and no list
\* of dicts (iterating a dict, a string or a number ends in an exception at
\* the first x.get)
DictsOf(v) ==
  LET l == OrElse(v, EmptyArr)
  IN IF IsArr(l) /\ \A i \in DOMAIN l.a : IsObj(l.a[i]) THEN l ELSE Raise

\* the set cat_codes of choose_topic_for_observation (a list there, used for
\* membership only), or Raise
cat_codes(res) ==
  LET cats == DictsOf(GetD(res, "category", EmptyArr))
  IN IF cats = Raise THEN Raise
     ELSE LET codings(i) == DictsOf(Get(cats.a[i], "coding"))
          IN IF \E i \in DOMAIN cats.a : codings(i) = Raise THEN Raise
             ELSE LET all == UNION {SeqRange(codings(i).a) : i \in DOMAIN cats.a}
                      sys(c) == LowerOf(Get(c, "system"))
                      counted(c) == sys(c) # Raise /\ sys(c).s \in CategorySystems
                  IN IF \E c \in all : sys(c) = Raise
                                       \/ (counted(c) /\ LowerOf(Get(c, "code")) = Raise)
                     THEN Raise
                     ELSE PySet({LowerOf(Get(c, "code")).s :
                                   c \in {d \in all : counted(d)
                                                      /\ LowerOf(Get(d, "code")).s # ""}})

\* the set codes of choose_topic_for_observation: (system, code) of every
\* coding of res.code, or Raise
code_pairs(res) ==
  LET code == GetD(res, "code", EmptyObj)
      cs == IF IsObj(code) THEN DictsOf(Get(code, "coding")) ELSE Raise
  IN IF cs = Raise THEN Raise
     ELSE IF \E c \in SeqRange(cs.a) :
                Get(c, "system").j \in {"arr", "obj"} \/ Get(c, "code").j \in {"arr", "obj"}
          THEN Raise
          ELSE PySet({<<Get(c, "system"), Get(c, "code")>> : c \in SeqRange(cs.a)})

\* choose_topic_for_observation with the vital-signs test ahead of the
\* laboratory test
choose_topic_for_observation_vitals_first(res, action) ==
  LET status == LowerOf(Get(res, "status"))
      cats == cat_codes(res)
      codes == code_pairs(res)
  IN IF status = Raise \/ cats = Raise \/ codes = Raise THEN Raise
     ELSE IF "vital-signs" \in cats.e \/ codes.e \cap VITALS # {}
          THEN JStr(RPM_OBS_CREATED_TOPIC)
          ELSE IF "laboratory" \in cats.e
               THEN IF status.s = "final" THEN JStr(RESULTS_FINAL_TOPIC)
                    ELSE JStr(RESULTS_PRELIM_TOPIC)
               ELSE JNull

\* choose_topic_for_observation(res, action): JStr(topic), JNull or Raise
choose_topic_for_observation(res, action) ==
  LET status == LowerOf(Get(res, "status"))
      cats == cat_codes(res)
      codes == code_pairs(res)
  IN IF status = Raise \/ cats = Raise \/ codes = Raise THEN Raise
     ELSE IF "laboratory" \in cats.e
          THEN IF status.s = "final" THEN JStr(RESULTS_FINAL_TOPIC)
               ELSE JStr(RESULTS_PRELIM_TOPIC)
          ELSE IF "vital-signs" \in cats.e \/ codes.e \cap VITALS # {}
               THEN JStr(RPM_OBS_CREATED_TOPIC)
               ELSE JNull

\* choose_topic_for_encounter sending an emergency arrival to triage only when
\* the delivery is no update
choose_topic_for_encounter_triage_once(res, action) ==
  LET status == LowerOf(Get(res, "status"))
      cls == UpperOf(GetOf(OrElse(Get(res, "class"), EmptyObj), "code"))
  IN IF status = Raise \/ cls = Raise THEN Raise
     ELSE IF cls.s = "EMER"
          THEN IF status.s \in {"arrived"} /\ action # JStr("UpdateResource")
               THEN JStr(ED_TRIAGE_TOPIC) ELSE JNull
          ELSE IF cls.s = "IMP" /\ status.s \in {"in-progress", "arrived"}
               THEN IF action = JStr("UpdateResource") THEN JStr(ADT_TRANSFER_TOPIC)
                    ELSE JStr(ADT_ADMIT_TOPIC)
               ELSE IF cls.s = "IMP" /\ status.s \in {"finished", "completed"}
                    THEN JStr(ADT_DISCHARGE_TOPIC)
                    ELSE JNull

\* choose_topic_for_encounter admitting only on a create
choose_topic_for_encounter_create_admits(res, action) ==
  LET status == LowerOf(Get(res, "status"))
      cls == UpperOf(GetOf(OrElse(Get(res, "class"), EmptyObj), "code"))
  IN IF status = Raise \/ cls = Raise THEN Raise
     ELSE IF cls.s = "EMER"
          THEN IF status.s \in {"arrived"} THEN JStr(ED_TRIAGE_TOPIC) ELSE JNull
          ELSE IF cls.s = "IMP" /\ status.s \in {"in-progress", "arrived"}
               THEN IF action = JStr("CreateResource") THEN JStr(ADT_ADMIT_TOPIC)
                    ELSE JStr(ADT_TRANSFER_TOPIC)
               ELSE IF cls.s = "IMP" /\ status.s \in {"finished", "completed"}
                    THEN JStr(ADT_DISCHARGE_TOPIC)
                    ELSE JNull

\* choose_topic_for_encounter(res, action)
choose_topic_for_encounter(res, action) ==
  LET status == LowerOf(Get(res, "status"))
      cls == UpperOf(GetOf(OrElse(Get(res, "class"), EmptyObj), "code"))
  IN IF status = Raise \/ cls = Raise THEN Raise
     ELSE IF cls.s = "EMER"
          THEN IF status.s \in {"arrived"} THEN JStr(ED_TRIAGE_TOPIC) ELSE JNull
          ELSE IF cls.s = "IMP" /\ status.s \in {"in-progress", "arrived"}
               THEN IF action = JStr("UpdateResource") THEN JStr(ADT_TRANSFER_TOPIC)
                    ELSE JStr(ADT_ADMIT_TOPIC)
               ELSE IF cls.s = "IMP" /\ status.s \in {"finished", "completed"}
                    THEN JStr(ADT_DISCHARGE_TOPIC)
                    ELSE JNull

\* choose_topic_for_appointment deciding by the status alone
choose_topic_for_appointment_by_status(res, action) ==
  LET status == LowerOf(Get(res, "status"))
  IN IF status = Raise THEN Raise
     ELSE IF status.s \in {"booked", "proposed", "pending", "arrived",
                           "checked-in", "accepted"}
          THEN JStr(SCHED_CREATED_TOPIC)
          ELSE JNull

\* choose_topic_for_appointment(res, action)
choose_topic_for_appointment(res, action) ==
  LET status == LowerOf(Get(res, "status"))
  IN IF status = Raise THEN Raise
     ELSE IF \/ action \in {JStr("CreateResource"), JStr("UpdateResource")}
             \/ status.s \in {"booked", "proposed", "pending", "arrived",
                              "checked-in", "accepted"}
          THEN JStr(SCHED_CREATED_TOPIC)
          ELSE JNull

\* the routing block with both medication types sent to the administered topic
Route_meds_merged(rtype, res, action) ==
  CASE rtype = JStr("Observation") -> choose_topic_for_observation(res, action)
    [] rtype = JStr("ServiceRequest") -> JStr(ORDERS_CREATED_TOPIC)
    [] rtype = JStr("MedicationRequest") -> JStr(MEDS_ADMINISTERED_TOPIC)
    [] rtype = JStr("MedicationAdministration") -> JStr(MEDS_ADMINISTERED_TOPIC)
    [] rtype = JStr("Procedure") -> JStr(PROCEDURES_PERFORMED_TOPIC)
    [] rtype = JStr("DocumentReference") -> JStr(NOTES_CREATED_TOPIC)
    [] rtype = JStr("Appointment") -> choose_topic_for_appointment(res, action)
    [] rtype = JStr("Encounter") -> choose_topic_for_encounter(res, action)
    [] OTHER -> JNull

\* the routing block of pubsub_push: the topic for a resource whose
\* resourceType is rtype
Route(rtype, res, action) ==
  CASE rtype = JStr("Observation") -> choose_topic_for_observation(res, action)
    [] rtype = JStr("ServiceRequest") -> JStr(ORDERS_CREATED_TOPIC)
    [] rtype = JStr("MedicationRequest") -> JStr(MEDS_ORDERED_TOPIC)
    [] rtype = JStr("MedicationAdministration") -> JStr(MEDS_ADMINISTERED_TOPIC)
    [] rtype = JStr("Procedure") -> JStr(PROCEDURES_PERFORMED_TOPIC)
    [] rtype = JStr("DocumentReference") -> JStr(NOTES_CREATED_TOPIC)
    [] rtype = JStr("Appointment") -> choose_topic_for_appointment(res, action)
    [] rtype = JStr("Encounter") -> choose_topic_for_encounter(res, action)
    [] OTHER -> JNull
\* ---------------------------------------------------------- pub/sub publish
\* publish(topic, envelope, project_id) up to the broker call: the call
\* PUBLISHER.publish(tpath, data) it issues, or Raise when topic_path raises
publish_call(topic, envelope, project_id, c) ==
  LET tpath == topic_path(topic, project_id, c)
  IN IF tpath = Raise THEN Raise
     ELSE [tpath |-> tpath.s, data |-> envelope, project_id |-> project_id]

\* --------------------------------------------------------- coercion helpers
\* json.loads on the texts of the model's universe that start with { or [
JsonTexts == [k \in {"[1]"} |-> JArr(<<JNum(1)>>)]
json_loads(s) == IF s \in DOMAIN JsonTexts THEN JsonTexts[s] ELSE Raise
\* texts whose first character is { or [
BracketTexts == {"[1]", "{bad"}

\* _coerce_resource(v) on a JSON value (never bytes); the strings of the
\* universe carry no outer blanks, so strip() leaves them as they are
coerce_resource(v) ==
  CASE IsObj(v) -> v
    [] IsStr(v) ->
         IF v.s \in BracketTexts /\ json_loads(v.s) # Raise THEN json_loads(v.s)
         ELSE MkObj([raw |-> v])
    [] OTHER -> MkObj([raw |-> JStr(PyStr(v))])

\* _looks_like_envelope asking for the envelope's timestamps as well
looks_like_envelope_stamped(obj) ==
  IsObj(obj) /\ {"event_id", "topic", "resource_type", "resource", "provenance",
                 "occurred_at", "published_at"} \subseteq DOMAIN obj.o

\* _looks_like_envelope(obj)
looks_like_envelope(obj) ==
  IsObj(obj) /\ {"event_id", "topic", "resource_type", "resource", "provenance"}
                  \subseteq DOMAIN obj.o

\* ----------------------------------------------------------------- endpoints
\* A request body that is not JSON
Invalid == [j |-> "invalid"]

\* base64.b64decode(data).decode("utf-8") followed by json.loads, on the data
\* strings of the universe: "b64:" + key is the encoding of the payload key
\* names; every other string fails to decode
B64Json(data, payloads) ==
  IF IsStr(data) /\ \E k \in DOMAIN payloads : data.s = "b64:" \o k
  THEN payloads[CHOOSE k \in DOMAIN payloads : data.s = "b64:" \o k]
  ELSE Raise

\* One request's record: where the handler stands (pc), what it has computed,
\* the calls it has made and what each call came to
Blank(body) ==
  [pc |-> "done", body |-> body, payload |-> Absent, project_id |-> JNull,
   action |-> JNull, res |-> JNull, topic |-> JNull, env |-> JNull,
   fetchCalls |-> <<>>, fetched |-> "none", pubCalls |-> <<>>, published |-> "none",
   token |-> JNull, resp |-> JNull]
Idle == [Blank(JNull) EXCEPT !.pc = "idle"]

\* health(): JSONResponse({"status": "ok"}, status_code=200)
health == [code |-> 200, body |-> MkObj([status |-> JStr("ok")])]

\* JSONResponse(content, status_code)
Respond(st, code, content) ==
  [st EXCEPT !.pc = "done", !.resp = [code |-> code, body |-> MkObj(content)]]
\* an exception leaving the handler: the framework's plain-text 500
Crash(st) ==
  [st EXCEPT !.pc = "done",
             !.resp = [code |-> 500, body |-> [j |-> "text", s |-> "Internal Server Error"]]]

\* a publish failure answered as a success without a token (the variant C6 is
\* checked against)
PublishFailed_Acked(st, e) ==
  Respond([st EXCEPT !.published = "raised"], 200,
          [status |-> JStr("ok"), published_to |-> st.topic,
           project |-> st.project_id, messageId |-> JNull])

\* the except branch of the publish: publish failed
PublishFailed(st, e) ==
  Respond([st EXCEPT !.published = "raised"], 500,
          [status |-> JStr("error"), reason |-> JStr("publish failed: " \o e)])

\* a success response that reports the topic path instead of the topic (the
\* variant C10 is checked against)
PublishOk_Path(st, mid) ==
  Respond([st EXCEPT !.published = "returned", !.token = JStr(mid)], 200,
          [status |-> JStr("ok"), published_to |-> JStr(st.pubCalls[1].tpath),
           project |-> st.project_id, messageId |-> JStr(mid)])

\* the success response after publish returned the message id mid
PublishOk(st, mid) ==
  Respond([st EXCEPT !.published = "returned", !.token = JStr(mid)], 200,
          [status |-> JStr("ok"), published_to |-> st.topic,
           project |-> st.project_id, messageId |-> JStr(mid)])

\* the response for a resource without resourceType
NoResourceType(st) ==
  Respond(st, 200, [status |-> JStr("ignored"), reason |-> JStr("no resourceType")])

\* an unrouted resource answered as a retryable error (the variant C9 is
\* checked against)
NoMapping_Retry(st) ==
  Respond(st, 500, [status |-> JStr("error"), reason |-> JStr("no mapping")])

\* the response for a resource routed to no topic
NoMapping(st) ==
  Respond(st, 200, [status |-> JStr("ignored"), reason |-> JStr("no mapping")])

\* the envelope kept in one buffer of the process: a request that builds its
\* envelope while another request's publish is pending sends that one's
BuildAndPublish_shared(st, topic, res, clk, c) ==
  LET own == build_envelope(topic.s, res, clk)
      pending == {k \in DOMAIN reqs : reqs[k].pc = "publish"}
      env == IF own # Raise /\ pending # {}
             THEN reqs[CHOOSE k \in pending : TRUE].env ELSE own
      s2 == [st EXCEPT !.topic = topic, !.env = env]
      call == publish_call(topic.s, env, st.project_id, c)
  IN IF env = Raise THEN Crash([st EXCEPT !.topic = topic])
     ELSE IF call = Raise THEN PublishFailed(s2, "credentials")
          ELSE [s2 EXCEPT !.pc = "publish", !.pubCalls = Append(@, call)]

\* build_envelope and the call of publish, up to the broker call
BuildAndPublish(st, topic, res, clk, c) ==
  LET env == build_envelope(topic.s, res, clk)
      s2 == [st EXCEPT !.topic = topic, !.env = env]
      call == publish_call(topic.s, env, st.project_id, c)
  IN IF env = Raise THEN Crash([st EXCEPT !.topic = topic])
     ELSE IF call = Raise THEN PublishFailed(s2, "credentials")
          ELSE [s2 EXCEPT !.pc = "publish", !.pubCalls = Append(@, call)]

\* pubsub_push from the resource on: resourceType check, routing, envelope
\* and the publish call; clk is the clock reading of this stretch
AfterResource(st, res, clk, c) ==
  LET s1 == [st EXCEPT !.res = res]
  IN IF ~IsObj(res) THEN Crash(s1)
     ELSE LET rtype == Get(res, "resourceType")
          IN IF ~Truthy(rtype) THEN NoResourceType(s1)
             ELSE LET topic == Route(rtype, res, st.action)
                  IN IF topic = Raise THEN Crash(s1)
                     ELSE IF ~Truthy(topic) THEN NoMapping(s1)
                          ELSE BuildAndPublish(s1, topic, res, clk, c)

\* a fetch failure swallowed and acknowledged (the variant C5 is checked
\* against)
FetchFailed_Swallowed(st, e) ==
  Respond([st EXCEPT !.fetched = "raised"], 200,
          [status |-> JStr("ignored"), reason |-> JStr("fetch failed: " \o e)])

\* a fetch failure answered by issuing the fetch once more
FetchFailed_Refetch(st, e) ==
  [st EXCEPT !.fetchCalls = Append(@, @[1])]

\* the except branch of the fetch: fetch failed
FetchFailed(st, e) ==
  Respond([st EXCEPT !.fetched = "raised"], 500,
          [status |-> JStr("error"), reason |-> JStr("fetch failed: " \o e)])

\* the branch on the payload: the fetch call for a payload with a name, the
\* coerced payload (or its `resource` member) otherwise
FetchOrCoerce(st, payload, clk, c) ==
  IF IsObj(payload) /\ Has(payload, "name")
  THEN [st EXCEPT !.pc = "fetch", !.fetchCalls = Append(@, payload.o.name)]
  ELSE IF ~IsObj(payload) THEN Crash(st)
       ELSE AfterResource(st, coerce_resource(GetD(payload, "resource", payload)), clk, c)

\* pubsub_push from the decoded payload on: envelope check, namespace, action,
\* then the fetch call or the coerced inline resource
AfterDecode(st, attrs, payload, clk, c) ==
  LET s1 == [st EXCEPT !.payload = payload]
  IN IF looks_like_envelope(payload)
     THEN Respond(s1, 200, [status |-> JStr("skipped")])
     ELSE LET project_id == get_project_id(c)
              action == IF IsObj(payload)
                        THEN OrElse(GetOf(attrs, "action"), Get(payload, "action"))
                        ELSE JNull
          IN IF project_id = Raise \/ action = Raise THEN Crash(s1)
             ELSE FetchOrCoerce([s1 EXCEPT !.project_id = project_id, !.action = action],
                                payload, clk, c)

\* pubsub_push from the request body to its first outbound call or its response
pubsub_push(body, payloads, clk, c) ==
  LET st == Blank(body)
  IN IF body = Invalid
     THEN Respond(st, 400, [status |-> JStr("error"), reason |-> JStr("invalid json")])
     ELSE IF IsObj(body) /\ Has(body, "message") /\ IsObj(body.o.message)
          THEN LET msg == body.o.message
                   attrs == OrElse(Get(msg, "attributes"), EmptyObj)
                   payload == B64Json(Get(msg, "data"), payloads)
               IN IF ~Has(msg, "data")
                  THEN Respond(st, 400, [status |-> JStr("error"),
                                         reason |-> JStr("missing data")])
                  ELSE IF payload = Raise
                       THEN Respond(st, 400,
                              [status |-> JStr("error"),
                               reason |-> JStr("base64/json decode failed: invalid")])
                       ELSE AfterDecode(st, attrs, payload, clk, c)
          ELSE AfterDecode(st, EmptyObj, body, clk, c)

\* ------------------------------------------------- the universe of inputs
TS_A == "2025-01-01T00:00:00Z"
TS_B == "2025-02-02T00:00:00Z"
TS_META == "2025-03-03T00:00:00Z"
Meta == MkObj([lastUpdated |-> JStr(TS_META)])
Coding(sys, code) == MkObj([system |-> sys, code |-> code])
Category(sys, code) == JArr(<<MkObj([coding |-> JArr(<<Coding(sys, code)>>)])>>)
CatSystem == JStr("http://terminology.hl7.org/CodeSystem/observation-category")
CatLab == Category(CatSystem, JStr("laboratory"))
CatVital == Category(CatSystem, JStr("vital-signs"))
CodeHR == MkObj([coding |-> JArr(<<Coding(JStr(LOINC), JStr("8867-4"))>>)])
Subject == MkObj([reference |-> JStr("Patient/123")])
Period(start, end) == MkObj([start |-> start, end |-> end])
Class(code) == MkObj([code |-> JStr(code)])

Observations ==
  {MkObj([resourceType |-> JStr("Observation"), id |-> JStr("obs1"), status |-> st,
          effectiveDateTime |-> eff, category |-> cat, subject |-> Subject]) :
     st \in {JStr("final"), JStr("preliminary")}, eff \in {Absent, JStr(TS_A)},
     cat \in {Absent, CatLab, CatVital}}
  \cup {MkObj([resourceType |-> JStr("Observation"), id |-> JStr("obs2"),
               status |-> JStr("final"), code |-> CodeHR, issued |-> JStr(TS_B)]),
        MkObj([resourceType |-> JStr("Observation"), id |-> JStr("obs3"),
               status |-> JStr("final"), category |-> CatLab, meta |-> JNull]),
        MkObj([resourceType |-> JStr("Observation"), id |-> JStr("obs4"),
               status |-> JStr("final"), code |-> JNull])}
ServiceRequests ==
  {MkObj([resourceType |-> JStr("ServiceRequest"), id |-> JStr("sr1"), status |-> st,
          authoredOn |-> au, meta |-> m]) :
     st \in {Absent, JStr("active"), JStr("completed")}, au \in {Absent, JStr(TS_A)},
     m \in {Absent, Meta}}
  \cup {MkObj([resourceType |-> JStr("ServiceRequest"), authoredOn |-> JStr(TS_A)])}
MedicationRequests ==
  {MkObj([resourceType |-> JStr("MedicationRequest"), id |-> JStr("mr1"),
          authoredOn |-> au]) : au \in {Absent, JStr(TS_A)}}
MedicationAdministrations ==
  {MkObj([resourceType |-> JStr("MedicationAdministration"), id |-> JStr("ma1"),
          effectiveDateTime |-> eff, effectivePeriod |-> per]) :
     eff \in {Absent, JStr(TS_A)}, per \in {Absent, Period(JStr(TS_B), Absent)}}
Procedures ==
  {MkObj([resourceType |-> JStr("Procedure"), id |-> JStr("pr1"),
          performedDateTime |-> pd, performedPeriod |-> per]) :
     pd \in {Absent, JStr(TS_A)}, per \in {Absent, Period(JStr(TS_B), Absent)}}
DocumentReferences ==
  {MkObj([resourceType |-> JStr("DocumentReference"), id |-> JStr("dr1"), date |-> d]) :
     d \in {Absent, JStr(TS_A)}}
  \cup {MkObj([resourceType |-> JStr("DocumentReference"), id |-> JStr("dr2"),
               date |-> JStr(TS_A), meta |-> JNull,
               content |-> JArr(<<MkObj([attachment |-> MkObj([size |-> JNum(5)])]),
                                  EmptyObj>>),
               author |-> EmptyArr])}
Appointments ==
  {MkObj([resourceType |-> JStr("Appointment"), id |-> JStr("ap1"), status |-> st,
          start |-> sta,
          participant |-> JArr(<<MkObj([actor |-> MkObj([reference |-> JStr("Patient/p1")])])>>)]) :
     st \in {JStr("booked"), JStr("cancelled")}, sta \in {Absent, JStr(TS_A)}}
Encounters ==
  {MkObj([resourceType |-> JStr("Encounter"), id |-> JStr("en1"), status |-> JStr(st),
          class |-> cls, period |-> per]) :
     st \in {"in-progress", "arrived", "finished"},
     cls \in {Absent, Class("IMP"), Class("EMER")},
     per \in {Absent, Period(JStr(TS_A), JStr(TS_B))}}
Unrouted ==
  {MkObj([resourceType |-> JStr("Patient"), id |-> JStr("abc")]),
   MkObj([id |-> JStr("x1")])}

\* what the record store may answer to a fetch
Resources(u) ==
  IF u = "small"
  THEN {MkObj([resourceType |-> JStr("ServiceRequest"), id |-> JStr("sr1")]),
        MkObj([resourceType |-> JStr("ServiceRequest"), id |-> JStr("sr1"),
               authoredOn |-> JStr(TS_A)]),
        MkObj([resourceType |-> JStr("Patient"), id |-> JStr("abc")])}
  ELSE Observations \cup ServiceRequests \cup MedicationRequests
       \cup MedicationAdministrations \cup Procedures \cup DocumentReferences
       \cup Appointments \cup Encounters \cup Unrouted

LOCATOR == "projects/p/datasets/d/fhirStores/f/fhir/Observation/obs1"

\* decoded payloads, by the key that names their base64 data string
Payloads ==
  [name |-> MkObj([name |-> JStr(LOCATOR)]),
   nameAction |-> MkObj([name |-> JStr(LOCATOR), action |-> JStr("UpdateResource")]),
   nameNumber |-> MkObj([name |-> JNum(5)]),
   resourceName |-> MkObj([resourceName |-> JStr(LOCATOR)]),
   envelope |-> MkObj([event_id |-> JStr("e"), topic |-> JStr(ORDERS_CREATED_TOPIC),
                       resource_type |-> JStr("ServiceRequest"),
                       resource |-> JStr("{}"), provenance |-> EmptyObj,
                       name |-> JStr(LOCATOR)]),
   inline |-> MkObj([resourceType |-> JStr("ServiceRequest"), id |-> JStr("sr9"),
                     authoredOn |-> JStr(TS_A)]),
   inlineEncounter |-> MkObj([resourceType |-> JStr("Encounter"), id |-> JStr("en9"),
                              status |-> JStr("in-progress"), class |-> Class("IMP")]),
   wrapped |-> MkObj([resource |-> MkObj([resourceType |-> JStr("Procedure"),
                                           id |-> JStr("pr9")])]),
   wrappedList |-> MkObj([resource |-> JStr("[1]")]),
   wrappedText |-> MkObj([resource |-> JStr("{bad")]),
   other |-> MkObj([other_key |-> JStr("value")]),
   text |-> JStr("Notification for " \o LOCATOR),
   list |-> JArr(<<>>),
   number |-> JNum(7),
   null |-> JNull]

Attributes ==
  {Absent, EmptyObj, JStr("oops")}
  \cup {MkObj([action |-> JStr(a)]) : a \in {"CreateResource", "UpdateResource", "DeleteResource"}}

PushBody(data, attrs) == MkObj([message |-> MkObj([data |-> data, attributes |-> attrs])])

\* the request bodies of the universe u
Bodies(u) ==
  IF u = "small"
  THEN {Payloads.name, PushBody(JStr("b64:name"), MkObj([action |-> JStr("UpdateResource")]))}
  ELSE {Invalid, MkObj([message |-> JStr("hello")])}
       \cup {Payloads[k] : k \in DOMAIN Payloads}
       \cup {PushBody(JStr("b64:" \o k), a) : k \in DOMAIN Payloads, a \in Attributes}
       \cup {PushBody(d, EmptyObj) : d \in {Absent, JNull, JStr("not-base64")}}

\* PROJECT_ENV and the ambient credentials of the process
Configs(u) ==
  IF u = "small"
  THEN {[PROJECT_ENV |-> JStr("proj-env"), ambient |-> JStr("proj-amb")]}
  ELSE {[PROJECT_ENV |-> JStr("proj-env"), ambient |-> JStr("proj-amb")]}
       \cup {[PROJECT_ENV |-> JNull, ambient |-> a] : a \in {JStr("proj-amb"), JNull}}

FetchErrors == {"FHIR API Down"}
PublishErrors == {"deadline exceeded"}
MessageIds == {"mid-1"}

\* ------------------------------------------------------------------ actions
\* the wall clock advances
Tick ==
  /\ now < MaxClock
  /\ now' = now + 1
  /\ UNCHANGED <<cfg, universe, reqs, builds, routed, applied, upload, probes>>

\* request r, a POST /pubsub/push, arrives and runs to its first outbound call
\* or to its response
Receive(r) ==
  /\ reqs[r].pc = "idle"
  /\ \E body \in Bodies(universe) :
       reqs' = [reqs EXCEPT ![r] = pubsub_push(body, Payloads, now, cfg)]
  /\ UNCHANGED <<now, cfg, universe, builds, routed, applied, upload, probes>>

\* fetch_fhir_resource_by_name returns the resource; the handler runs on to
\* the publish call or its response
FetchReturn(r) ==
  /\ reqs[r].pc = "fetch"
  /\ IsStr(reqs[r].fetchCalls[1])
  /\ \E res \in Resources(universe) :
       reqs' = [reqs EXCEPT ![r] =
                  AfterResource([reqs[r] EXCEPT !.fetched = "returned"], res, now, cfg)]
  /\ UNCHANGED <<now, cfg, universe, builds, routed, applied, upload, probes>>

\* fetch_fhir_resource_by_name raises (credentials, network, timeout, status)
FetchRaise(r) ==
  /\ reqs[r].pc = "fetch"
  /\ \E e \in FetchErrors : reqs' = [reqs EXCEPT ![r] = FetchFailed(reqs[r], e)]
  /\ UNCHANGED <<now, cfg, universe, builds, routed, applied, upload, probes>>

\* future.result returns the broker's message id
PublishReturn(r) ==
  /\ reqs[r].pc = "publish"
  /\ \E mid \in MessageIds : reqs' = [reqs EXCEPT ![r] = PublishOk(reqs[r], mid)]
  /\ UNCHANGED <<now, cfg, universe, builds, routed, applied, upload, probes>>

\* the publish raises, or future.result times out
PublishRaise(r) ==
  /\ reqs[r].pc = "publish"
  /\ \E e \in PublishErrors : reqs' = [reqs EXCEPT ![r] = PublishFailed(reqs[r], e)]
  /\ UNCHANGED <<now, cfg, universe, builds, routed, applied, upload, probes>>

\* the same, for whichever request of the specification takes the step
DoReceive == \E r \in DOMAIN reqs : Receive(r)
DoFetchReturn == \E r \in DOMAIN reqs : FetchReturn(r)
DoFetchRaise == \E r \in DOMAIN reqs : FetchRaise(r)
DoPublishReturn == \E r \in DOMAIN reqs : PublishReturn(r)
DoPublishRaise == \E r \in DOMAIN reqs : PublishRaise(r)

\* a GET /health is answered; MaxProbes of them are followed
Health ==
  /\ universe \in {"full", "small"}
  /\ Len(probes) < MaxProbes
  /\ probes' = Append(probes, health)
  /\ UNCHANGED <<now, cfg, universe, reqs, builds, routed, applied, upload>>

\* ----------------------------------------------------------- specifications
\* one request at a time, the full universe of bodies, resources and configs
Init ==
  /\ now = 0
  /\ universe = "full"
  /\ cfg \in Configs("full")
  /\ reqs = [r \in {1} |-> Idle]
  /\ builds = <<>>
  /\ routed = <<>>
  /\ applied = <<>>
  /\ upload = <<>>
  /\ probes = <<>>

Next ==
  \/ Tick \/ DoReceive \/ DoFetchReturn \/ DoFetchRaise \/ DoPublishReturn
  \/ DoPublishRaise \/ Health

Spec == Init /\ [][Next]_vars

\* two requests in flight at once (two deliveries, or two instances), over the
\* small universe
InitPair ==
  /\ now = 0
  /\ universe = "small"
  /\ cfg \in Configs("small")
  /\ reqs = [r \in {1, 2} |-> Idle]
  /\ builds = <<>>
  /\ routed = <<>>
  /\ applied = <<>>
  /\ upload = <<>>
  /\ probes = <<>>

SpecPair == InitPair /\ [][Next]_vars

\* build_envelope on its own: two invocations, each on a topic and a resource
\* of its choice, at the clock reading of its moment
EnvTopics == {ORDERS_CREATED_TOPIC, MEDS_ORDERED_TOPIC}
EnvResources ==
  ServiceRequests
  \cup {MkObj([resourceType |-> JStr("ServiceRequest"), id |-> JStr("no-id"),
               authoredOn |-> JStr(TS_A)]),
        MkObj([resourceType |-> JStr("ServiceRequest"), id |-> JStr("sr1"),
               status |-> JStr("active"), authoredOn |-> JStr(TS_A), subject |-> Subject]),
        MkObj([resourceType |-> JStr("Observation"), id |-> JStr("obs3"),
               status |-> JStr("final"), category |-> CatLab, meta |-> JNull])}
NoBuild == [topic |-> "", res |-> JNull, env |-> JNull]

Build(i) ==
  /\ builds[i] = NoBuild
  /\ \E topic \in EnvTopics, res \in EnvResources :
       builds' = [builds EXCEPT ![i] = [topic |-> topic, res |-> res,
                                        env |-> build_envelope(topic, res, now)]]
  /\ UNCHANGED <<now, cfg, universe, reqs, routed, applied, upload, probes>>

DoBuild == \E i \in DOMAIN builds : Build(i)

InitEnv ==
  /\ now = 0
  /\ universe = "env"
  /\ cfg \in Configs("small")
  /\ reqs = <<>>
  /\ builds = <<NoBuild, NoBuild>>
  /\ routed = <<>>
  /\ applied = <<>>
  /\ upload = <<>>
  /\ probes = <<>>

NextEnv == Tick \/ DoBuild

SpecEnv == InitEnv /\ [][NextEnv]_vars
\* ------------------------------------------------------------------- claims
\* what a request's record says of its response
RespStatus(st) ==
  IF st.resp # JNull /\ IsObj(st.resp.body) /\ IsStr(Get(st.resp.body, "status"))
  THEN Get(st.resp.body, "status").s
  ELSE ""
RespCode(st) == IF st.resp # JNull THEN st.resp.code ELSE 0
RespField(st, k) ==
  IF st.resp # JNull /\ IsObj(st.resp.body) THEN GetD(st.resp.body, k, Absent) ELSE Absent
Enveloped(st) == st.env # JNull /\ st.env # Raise

\* C1. Redelivery stability: two handlings of the same notification that fetch
\* the identical resource and classify it to the same topic publish envelopes
\* with the identical event_id, whatever the wall-clock time of each handling.
C1_RedeliveryStable ==
  \A r1 \in DOMAIN reqs, r2 \in DOMAIN reqs :
    ( /\ Enveloped(reqs[r1]) /\ Enveloped(reqs[r2])
      /\ reqs[r1].pubCalls # <<>> /\ reqs[r2].pubCalls # <<>>
      /\ reqs[r1].body = reqs[r2].body
      /\ reqs[r1].fetched = "returned" /\ reqs[r2].fetched = "returned"
      /\ reqs[r1].res = reqs[r2].res
      /\ reqs[r1].topic = reqs[r2].topic )
    => reqs[r1].env.event_id = reqs[r2].env.event_id

\* the tuple (topic, resourceType, id, occurred_at, status) of an invocation
\* of build_envelope
Built(b) == b.env # JNull /\ b.env # Raise
TupleOf(b) ==
  <<JStr(b.topic), Get(b.res, "resourceType"), GetD(b.res, "id", Absent),
    b.env.occurred_at, GetD(b.res, "status", Absent)>>
DiffCount(t, u) == Cardinality({k \in 1..5 : t[k] # u[k]})

\* C2. event_id sensitivity: two build_envelope invocations whose tuples
\* (topic, resourceType, id, occurred_at, status) differ in exactly one field
\* get different event_ids.
C2_EventIdSensitive ==
  \A i \in DOMAIN builds, k \in DOMAIN builds :
    (Built(builds[i]) /\ Built(builds[k])
       /\ DiffCount(TupleOf(builds[i]), TupleOf(builds[k])) = 1)
    => builds[i].env.event_id # builds[k].env.event_id

\* C3. event_id idempotence: two build_envelope invocations whose tuples
\* (topic, resourceType, id, occurred_at, status) are equal get equal
\* event_ids, whatever published_at, the provenance window and the other
\* fields of the resource are.
C3_EventIdIdempotent ==
  \A i \in DOMAIN builds, k \in DOMAIN builds :
    (Built(builds[i]) /\ Built(builds[k]) /\ TupleOf(builds[i]) = TupleOf(builds[k]))
    => builds[i].env.event_id = builds[k].env.event_id

\* C3 witness: two invocations with equal tuples on different resources at
\* different clock readings.
C3_Witness ==
  /\ DOMAIN builds = {1, 2}
  /\ Built(builds[1]) /\ Built(builds[2])
  /\ TupleOf(builds[1]) = TupleOf(builds[2])
  /\ builds[1].res # builds[2].res
  /\ builds[1].env.published_at # builds[2].env.published_at
  /\ builds[1].env.provenance # builds[2].env.provenance

\* texts that contain a path .../fhir/<Type>/<id>
PathTexts == {"Notification for " \o LOCATOR}
\* the decoded payload carries a resource locator
HasLocator(p) ==
  \/ IsObj(p) /\ (Has(p, "name") \/ Has(p, "resourceName"))
  \/ IsStr(p) /\ p.s \in PathTexts

\* C4. Locator-absent no-op: a request whose decoded payload yields no locator
\* ends with HTTP 200, no fetch call and no publish call; so every publish
\* call follows a successful fetch in the same request.
C4_LocatorAbsentNoOp ==
  \A r \in DOMAIN reqs :
    LET st == reqs[r]
    IN /\ (st.payload # Absent /\ ~HasLocator(st.payload))
            => /\ st.fetchCalls = <<>>
               /\ st.pubCalls = <<>>
               /\ st.pc = "done" => RespCode(st) = 200
       /\ st.pubCalls # <<>> => st.fetched = "returned"

\* C5. Fetch failure is a retry signal: when the fetch raises, the response is
\* status error with HTTP 500 and the request makes no publish call.
C5_FetchFailureRetry ==
  \A r \in DOMAIN reqs :
    LET st == reqs[r]
    IN st.fetched = "raised"
         => /\ st.pc = "done"
            /\ RespStatus(st) = "error"
            /\ RespCode(st) = 500
            /\ st.pubCalls = <<>>

\* C5 witness: a request whose fetch raised has been answered.
C5_Witness ==
  \E r \in DOMAIN reqs :
    reqs[r].fetched = "raised" /\ reqs[r].pc = "done" /\ Len(reqs[r].fetchCalls) = 1

\* C6. Publish failure is a retry signal: when the publish raises or times
\* out, the response is status error with HTTP 500, and no response reports
\* ok unless the publish returned a delivery token.
C6_PublishFailureRetry ==
  \A r \in DOMAIN reqs :
    LET st == reqs[r]
    IN /\ st.published = "raised"
            => st.pc = "done" /\ RespStatus(st) = "error" /\ RespCode(st) = 500
       /\ (RespStatus(st) = "ok" \/ (st.pc = "done" /\ RespCode(st) = 200
                                     /\ st.pubCalls # <<>>))
            => st.published = "returned" /\ IsStr(st.token)

\* C6 witness: a request whose publish call was issued and raised has been
\* answered.
C6_Witness ==
  \E r \in DOMAIN reqs :
    reqs[r].published = "raised" /\ reqs[r].pc = "done" /\ Len(reqs[r].pubCalls) = 1

\* C7. Closed response set: every request ends with a JSON response whose
\* status is ok, ignored, skipped or error, with HTTP 200 exactly for the
\* first three and 400 or 500 for error; no exception leaves the handler.
C7_ClosedResponseSet ==
  \A r \in DOMAIN reqs :
    LET st == reqs[r]
    IN st.pc = "done"
         => /\ IsObj(st.resp.body)
            /\ RespStatus(st) \in {"ok", "ignored", "skipped", "error"}
            /\ RespCode(st) = 200 <=> RespStatus(st) \in {"ok", "ignored", "skipped"}
            /\ RespStatus(st) = "error" => RespCode(st) \in {400, 500}

\* C8. Missing namespace is a retry signal: when a locator was decoded and no
\* project id can be resolved, the request makes no fetch call and no publish
\* call and is answered status error, reason "project_id not found", HTTP 500.
C8_MissingNamespaceRetry ==
  \A r \in DOMAIN reqs :
    LET st == reqs[r]
    IN ( /\ st.payload # Absent
         /\ IsObj(st.payload) /\ Has(st.payload, "name")
         /\ ~looks_like_envelope(st.payload)
         /\ (get_project_id(cfg) = Raise \/ ~Truthy(get_project_id(cfg))) )
         => /\ st.fetchCalls = <<>>
            /\ st.pubCalls = <<>>
            /\ st.pc = "done"
                 => /\ RespStatus(st) = "error"
                    /\ RespCode(st) = 500
                    /\ RespField(st, "reason") = JStr("project_id not found")

\* classification maps the resource to no topic
NoTopic(res, action) ==
  /\ IsObj(res)
  /\ \/ ~Truthy(Get(res, "resourceType"))
     \/ Route(Get(res, "resourceType"), res, action) = JNull

\* C9. No-mapping is an acknowledged drop: a fetched resource that
\* classification maps to no topic is answered HTTP 200, status ignored
\* (reason "no mapping" when it has a resourceType), with no publish call.
C9_NoMappingDrop ==
  \A r \in DOMAIN reqs :
    LET st == reqs[r]
    IN (st.fetched = "returned" /\ NoTopic(st.res, st.action))
         => /\ st.pc = "done"
            /\ RespCode(st) = 200
            /\ RespStatus(st) = "ignored"
            /\ Has(st.res, "resourceType") => RespField(st, "reason") = JStr("no mapping")
            /\ st.pubCalls = <<>>

\* C9 witness: a fetched Patient and a fetched Observation of no routed kind
\* both occur; the state holds a fetched Patient that was answered.
C9_Witness ==
  \E r \in DOMAIN reqs :
    /\ reqs[r].fetched = "returned"
    /\ reqs[r].pc = "done"
    /\ Get(reqs[r].res, "resourceType") = JStr("Patient")
    /\ NoTopic(reqs[r].res, reqs[r].action)

\* C10. Success response consistency: a response with status ok has HTTP 200,
\* follows exactly one publish call, and carries the topic classification
\* returned (the topic of the published envelope), the namespace resolved and
\* passed to publish, and the delivery token publish returned.
C10_SuccessConsistent ==
  \A r \in DOMAIN reqs :
    LET st == reqs[r]
    IN RespStatus(st) = "ok"
         => /\ RespCode(st) = 200
            /\ Len(st.pubCalls) = 1
            /\ RespField(st, "published_to")
                 = Route(Get(st.res, "resourceType"), st.res, st.action)
            /\ RespField(st, "published_to") = JStr(st.pubCalls[1].data.topic)
            /\ RespField(st, "project") = st.pubCalls[1].project_id
            /\ RespField(st, "project") = get_project_id(cfg)
            /\ st.published = "returned"
            /\ RespField(st, "messageId") = st.token

\* C10 witness: a request answered ok after a fetch.
C10_Witness ==
  \E r \in DOMAIN reqs :
    /\ RespStatus(reqs[r]) = "ok"
    /\ reqs[r].fetched = "returned"
    /\ reqs[r].token = JStr("mid-1")
\* ------------------------------------------------- classification alone
\* The routing block of pubsub_push applied to one resource and one delivery
\* action, over resources that vary in what the classifiers read.
OtherSystem == JStr("http://example.org/codes")
\* the nine vital-sign codes: SpO2, heart rate, respiratory rate, temperature,
\* systolic and diastolic pressure, height, weight, BMI
AllowListed == {"59408-5", "8867-4", "9279-1", "8310-5", "8480-6", "8462-4", "8302-2",
                "29463-7", "39156-5"}
Categories(codings) == JArr([i \in DOMAIN codings |-> MkObj([coding |-> JArr(<<codings[i]>>)])])
ClassifyCategories ==
  {Absent, CatLab, CatVital,
   Category(JStr("http://hl7.org/fhir/observation-category"), JStr("laboratory")),
   Category(Absent, JStr("laboratory")),
   Category(OtherSystem, JStr("laboratory")),
   Category(CatSystem, JStr("LABORATORY")),
   Category(Absent, JStr("vital-signs")),
   Categories(<<Coding(CatSystem, JStr("vital-signs")), Coding(CatSystem, JStr("laboratory"))>>),
   Category(CatSystem, JStr("exam"))}
ClassifyCodes ==
  {Absent}
  \cup {MkObj([coding |-> JArr(<<Coding(JStr(LOINC), JStr(code))>>)]) : code \in AllowListed}
  \cup {MkObj([coding |-> JArr(<<Coding(JStr(LOINC), JStr("2345-7"))>>)]),
        MkObj([coding |-> JArr(<<Coding(OtherSystem, JStr("8867-4"))>>)]),
        MkObj([coding |-> JArr(<<Coding(Absent, JStr("8867-4"))>>)]),
        MkObj([coding |-> JArr(<<Coding(JStr(LOINC), JStr("2345-7")),
                                 Coding(JStr(LOINC), JStr("8480-6"))>>)])}
ClassifyObservations ==
  {MkObj([resourceType |-> JStr("Observation"), id |-> JStr("obs1"), status |-> st,
          category |-> cat, code |-> code]) :
     st \in {Absent, JStr("final"), JStr("FINAL"), JStr("preliminary"), JStr("amended")},
     cat \in ClassifyCategories, code \in ClassifyCodes}
ClassifyEncounters ==
  {MkObj([resourceType |-> JStr("Encounter"), id |-> JStr("en1"), status |-> st,
          class |-> cls]) :
     st \in {Absent} \cup {JStr(x) : x \in {"planned", "arrived", "in-progress",
                                            "finished", "completed", "cancelled"}},
     cls \in {Absent, Class("IMP"), Class("imp"), Class("EMER"), Class("emer"),
              Class("AMB")}}
ClassifyAppointments ==
  {MkObj([resourceType |-> JStr("Appointment"), id |-> JStr("ap1"), status |-> st]) :
     st \in {Absent} \cup {JStr(x) : x \in {"booked", "proposed", "pending", "arrived",
                                            "checked-in", "accepted", "cancelled",
                                            "fulfilled", "noshow", "waitlist"}}}
ClassifyOthers ==
  {MkObj([resourceType |-> JStr(rt), id |-> JStr("r1"), status |-> st]) :
     rt \in {"ServiceRequest", "MedicationRequest", "MedicationAdministration",
             "Procedure", "DocumentReference", "Patient", "Condition",
             "DiagnosticReport", "observation"},
     st \in {Absent, JStr("active"), JStr("completed"), JStr("final"), JStr("arrived"),
             JStr("booked")}}
ClassifyResources ==
  ClassifyObservations \cup ClassifyEncounters \cup ClassifyAppointments
  \cup ClassifyOthers
\* the delivery action: attrs.get("action") or payload.get("action")
ClassifyActions ==
  {JNull, JStr("CreateResource"), JStr("UpdateResource"), JStr("DeleteResource")}

\* the routing block applied to the resource drawn at the start
Classify ==
  /\ universe = "classify"
  /\ routed.topic = Absent
  /\ routed' = [routed EXCEPT
                  !.topic = Route(Get(routed.res, "resourceType"), routed.res,
                                  routed.action)]
  /\ UNCHANGED <<now, cfg, universe, reqs, builds, applied, upload, probes>>

InitClassify ==
  /\ now = 0
  /\ universe = "classify"
  /\ cfg = CHOOSE c \in Configs("small") : TRUE
  /\ reqs = <<>>
  /\ builds = <<>>
  /\ routed \in [res : ClassifyResources, action : ClassifyActions, topic : {Absent}]
  /\ applied = <<>>
  /\ upload = <<>>
  /\ probes = <<>>

NextClassify == Classify

SpecClassify == InitClassify /\ [][NextClassify]_vars

\* the classification is done
Routed == universe = "classify" /\ routed.topic # Absent
\* the resource is of this type
OfType(rt) == Get(routed.res, "resourceType") = JStr(rt)
\* the codings of the resource's categories
CategoryCodings(res) ==
  LET cats == GetD(res, "category", EmptyArr)
  IN UNION {SeqRange(Get(cats.a[i], "coding").a) : i \in DOMAIN cats.a}

\* a category coding carries this code, whatever its system
HasCategoryCode(res, code) ==
  \E c \in CategoryCodings(res) : Get(c, "code") = JStr(code)
\* a category coding of an observation-category system carries this code,
\* letter case ignored in both
RecognisedCategory(res, code) ==
  \E c \in CategoryCodings(res) :
    /\ IsStr(Get(c, "system")) /\ IsStr(Get(c, "code"))
    /\ Lower(Get(c, "system").s)
         \in {"http://terminology.hl7.org/codesystem/observation-category",
              "http://hl7.org/fhir/observation-category"}
    /\ Lower(Get(c, "code").s) = code
StatusIs(res, status) ==
  IsStr(Get(res, "status")) /\ Lower(Get(res, "status").s) = status
ResultsTopic(final) ==
  IF final THEN JStr(RESULTS_FINAL_TOPIC) ELSE JStr(RESULTS_PRELIM_TOPIC)

\* C14 as stated. Every Observation with a category coding whose code is
\* "laboratory", whatever the coding's system, is classified to the
\* final-results topic when its status is "final" and to the
\* preliminary-results topic otherwise.
C14_LaboratoryByCode ==
  (Routed /\ OfType("Observation") /\ HasCategoryCode(routed.res, "laboratory"))
    => routed.topic = ResultsTopic(Get(routed.res, "status") = JStr("final"))

\* C14 amended. Every Observation with a category coding of an
\* observation-category system whose code is "laboratory" (letter case
\* ignored) is classified to the final-results topic when its status,
\* lowercased, is "final" and to the preliminary-results topic for every other
\* status, whatever the observation's code and also when a vital-signs
\* category is present.
C14_LaboratoryBySystem ==
  (Routed /\ OfType("Observation") /\ RecognisedCategory(routed.res, "laboratory"))
    => routed.topic = ResultsTopic(StatusIs(routed.res, "final"))

\* a preliminary laboratory observation that is also in the vital-signs
\* category and carries an allow-listed code went to the preliminary topic
C14_Witness ==
  /\ Routed /\ OfType("Observation")
  /\ RecognisedCategory(routed.res, "laboratory")
  /\ RecognisedCategory(routed.res, "vital-signs")
  /\ Get(routed.res, "status") = JStr("preliminary")
  /\ Get(routed.res, "code") = CodeHR
  /\ routed.topic = JStr(RESULTS_PRELIM_TOPIC)

\* a coding of the observation's code is an allow-listed LOINC code
HasVitalCode(res) ==
  /\ Has(res, "code")
  /\ \E c \in SeqRange(Get(Get(res, "code"), "coding").a) :
       Get(c, "system") = JStr("http://loinc.org")
       /\ \E code \in AllowListed : Get(c, "code") = JStr(code)

\* C15 as stated. An Observation with no category coding of code "laboratory"
\* is classified to the remote-monitoring topic if a category coding has the
\* code "vital-signs" or a coding of its code is an allow-listed LOINC code,
\* for every status and action, and to no topic otherwise.
C15_VitalsByCode ==
  (Routed /\ OfType("Observation") /\ ~HasCategoryCode(routed.res, "laboratory"))
    => routed.topic =
         IF HasCategoryCode(routed.res, "vital-signs") \/ HasVitalCode(routed.res)
         THEN JStr(RPM_OBS_CREATED_TOPIC) ELSE JNull

\* C15 amended. An Observation with no laboratory category coding of an
\* observation-category system is classified to the remote-monitoring topic
\* if a category coding of an observation-category system has the code
\* "vital-signs" (letter case ignored) or a coding of its code has the system
\* http://loinc.org and one of the nine allow-listed codes, for every status
\* and action, and to no topic otherwise.
C15_VitalsBySystem ==
  (Routed /\ OfType("Observation") /\ ~RecognisedCategory(routed.res, "laboratory"))
    => routed.topic =
         IF RecognisedCategory(routed.res, "vital-signs") \/ HasVitalCode(routed.res)
         THEN JStr(RPM_OBS_CREATED_TOPIC) ELSE JNull

\* an observation without category and status, carrying the BMI code, was
\* classified to the remote-monitoring topic on a delete
C15_Witness ==
  /\ Routed /\ OfType("Observation")
  /\ ~Has(routed.res, "category") /\ ~Has(routed.res, "status")
  /\ Get(routed.res, "code") = MkObj([coding |-> JArr(<<Coding(JStr(LOINC), JStr("39156-5"))>>)])
  /\ routed.action = JStr("DeleteResource")
  /\ routed.topic = JStr(RPM_OBS_CREATED_TOPIC)

\* the `action` attribute of the notification a body wraps, JNull when the
\* body is no wrapper or carries none
AttrAction(body) ==
  IF IsObj(body) /\ Has(body, "message") /\ IsObj(body.o.message)
     /\ IsObj(Get(body.o.message, "attributes"))
  THEN Get(Get(body.o.message, "attributes"), "action")
  ELSE JNull
\* the delivery action of a request: the attribute, else the `action` field of
\* the payload itself, else none
DeliveryAction(st) ==
  IF AttrAction(st.body) # JNull THEN AttrAction(st.body)
  ELSE IF IsObj(st.payload) THEN Get(st.payload, "action") ELSE JNull
\* the request's resource is an inpatient Encounter in progress or arrived
InpatientActive(st) ==
  /\ IsObj(st.res) /\ Get(st.res, "resourceType") = JStr("Encounter")
  /\ Get(st.res, "class") \in {Class("IMP"), Class("imp")}
  /\ Get(st.res, "status") \in {JStr("in-progress"), JStr("arrived")}

C17_DischargeAnyClass ==
  (Routed /\ OfType("Encounter")
     /\ Get(routed.res, "status") \in {JStr("finished"), JStr("completed")})
    => routed.topic = JStr("adt.discharge")

\* C18. Emergency triage: every Encounter of class EMER with status arrived is
\* classified to the triage topic, for every delivery action.
C18_EmergencyTriage ==
  (Routed /\ OfType("Encounter")
     /\ Get(routed.res, "class") \in {Class("EMER"), Class("emer")}
     /\ Get(routed.res, "status") = JStr("arrived"))
    => routed.topic = JStr("ed.triage")

\* an emergency arrival delivered as an update went to triage
C18_Witness ==
  /\ Routed /\ OfType("Encounter")
  /\ Get(routed.res, "class") = Class("EMER")
  /\ Get(routed.res, "status") = JStr("arrived")
  /\ routed.action = JStr("UpdateResource")
  /\ routed.topic = JStr("ed.triage")

UnconditionalTopic ==
  [ServiceRequest |-> "orders.created", MedicationRequest |-> "meds.ordered",
   MedicationAdministration |-> "meds.administered",
   Procedure |-> "procedures.performed", DocumentReference |-> "notes.created"]

\* C20. Unconditional types and totality: ServiceRequest, MedicationRequest,
\* MedicationAdministration, Procedure and DocumentReference go to their
\* topics for every status and action; a type outside these five and
\* Observation, Encounter, Appointment goes to no topic; every resource gets
\* one topic or none.
C20_UnconditionalAndTotal ==
  Routed =>
    LET rt == Get(routed.res, "resourceType")
    IN /\ routed.topic = JNull \/ IsStr(routed.topic)
       /\ \A t \in DOMAIN UnconditionalTopic :
            rt = JStr(t) => routed.topic = JStr(UnconditionalTopic[t])
       /\ (rt \notin {JStr(t) : t \in DOMAIN UnconditionalTopic
                                      \cup {"Observation", "Encounter", "Appointment"}})
            => routed.topic = JNull

\* a completed MedicationRequest delivered as a delete went to meds.ordered
C20_Witness ==
  /\ Routed /\ OfType("MedicationRequest")
  /\ Get(routed.res, "status") = JStr("completed")
  /\ routed.action = JStr("DeleteResource")
  /\ routed.topic = JStr("meds.ordered")

\* C11. Malformed input is not retried: a request whose payload cannot be
\* decoded, or decodes to a value without a locator (a string without a path,
\* a list, a number, null, an object without a locator field), is answered
\* without an exception and never with HTTP 500.
C11_MalformedNotRetried ==
  \A r \in DOMAIN reqs :
    LET st == reqs[r]
    IN (st.pc = "done" /\ (st.payload = Absent \/ ~HasLocator(st.payload)))
         => IsObj(st.resp.body) /\ RespCode(st) # 500

\* the locator a payload carries: its name, its resourceName, or the path in
\* its text
LocatorOf(p) ==
  IF IsObj(p) THEN IF Has(p, "name") THEN p.o.name ELSE p.o.resourceName
  ELSE JStr(LOCATOR)

\* C12. Locator extraction covers three payload shapes: an object with `name`,
\* an object with `resourceName` and a text containing .../fhir/<Type>/<id>
\* all lead to a fetch of that locator; a payload with none leads to no fetch.
C12_LocatorShapes ==
  \A r \in DOMAIN reqs :
    LET st == reqs[r]
    IN (st.payload # Absent /\ ~looks_like_envelope(st.payload))
         => IF HasLocator(st.payload)
            THEN st.fetchCalls = <<LocatorOf(st.payload)>>
            ELSE st.fetchCalls = <<>>
\* json.loads as a consumer applies it to the envelope's `resource` text, on
\* the token sequence: the value read from position i and the next position
RECURSIVE ParseValue(_, _), ParseItems(_, _, _), ParseMembers(_, _, _)
ParseFail == [v |-> Raise, i |-> 0]
ParseValue(toks, i) ==
  IF i > Len(toks) THEN ParseFail
  ELSE LET tk == toks[i]
       IN CASE tk.t = "null" -> [v |-> JNull, i |-> i + 1]
            [] tk.t = "str" -> [v |-> JStr(tk.s), i |-> i + 1]
            [] tk.t = "num" -> [v |-> JNum(tk.n), i |-> i + 1]
            [] tk.t = "[" ->
                 IF i < Len(toks) /\ toks[i + 1].t = "]"
                 THEN [v |-> EmptyArr, i |-> i + 2]
                 ELSE ParseItems(toks, i + 1, <<>>)
            [] tk.t = "{" ->
                 IF i < Len(toks) /\ toks[i + 1].t = "}"
                 THEN [v |-> EmptyObj, i |-> i + 2]
                 ELSE ParseMembers(toks, i + 1, [k \in {} |-> JNull])
            [] OTHER -> ParseFail
ParseItems(toks, i, acc) ==
  LET r == ParseValue(toks, i)
  IN IF r.v = Raise \/ r.i > Len(toks) THEN ParseFail
     ELSE IF toks[r.i].t = "," THEN ParseItems(toks, r.i + 1, Append(acc, r.v))
     ELSE IF toks[r.i].t = "]" THEN [v |-> JArr(Append(acc, r.v)), i |-> r.i + 1]
     ELSE ParseFail
\* a key met again replaces the earlier value
ParseMembers(toks, i, acc) ==
  IF i + 2 > Len(toks) \/ toks[i].t # "str" \/ toks[i + 1].t # ":" THEN ParseFail
  ELSE LET r == ParseValue(toks, i + 2)
           acc2 == [k \in DOMAIN acc \cup {toks[i].s} |->
                      IF k = toks[i].s THEN r.v ELSE acc[k]]
       IN IF r.v = Raise \/ r.i > Len(toks) THEN ParseFail
          ELSE IF toks[r.i].t = "," THEN ParseMembers(toks, r.i + 1, acc2)
          ELSE IF toks[r.i].t = "}" THEN [v |-> JObj(acc2), i |-> r.i + 1]
          ELSE ParseFail
ParseJson(toks) ==
  LET r == ParseValue(toks, 1)
  IN IF r.v # Raise /\ r.i = Len(toks) + 1 THEN r.v ELSE Raise

\* C13. Resource round-trip: parsing the `resource` text of every envelope
\* handed to the broker yields a value equal to the resource the handler
\* fetched (or was given inline), and the handler still holds that resource
\* unchanged when it answers.
C13_ResourceRoundTrip ==
  \A r \in DOMAIN reqs :
    LET st == reqs[r]
    IN \A i \in DOMAIN st.pubCalls :
         /\ ParseJson(st.pubCalls[i].data.resource) = st.res
         /\ st.env.resource = json_dumps(st.res)

\* an envelope went out for a resource that holds a null, a number, an empty
\* list and nested objects
C13_Witness ==
  \E r \in DOMAIN reqs :
    LET st == reqs[r]
    IN /\ st.pubCalls # <<>>
       /\ st.published = "returned"
       /\ IsObj(st.res) /\ Has(st.res, "content") /\ Get(st.res, "meta") = JNull
       /\ Has(st.res, "meta")
       /\ ParseJson(st.pubCalls[1].data.resource) = st.res
\* ---------------------------------------------------- topic_path alone
\* topic_path applied to a topic name and a namespace, then to its own result
\* and a second namespace
PathTopics == ShortTopics \cup {"projects/other-proj/topics/results.final.v1",
                                "projects/my-proj/topics/my-topic", "projects/dangling"}
PathProjects == {JNull, JStr("my-proj"), JStr("proj-amb")}

ApplyTopicPath ==
  /\ universe = "path"
  /\ applied.once = Absent
  /\ applied' = [applied EXCEPT !.once = topic_path(applied.t, applied.p, cfg)]
  /\ UNCHANGED <<now, cfg, universe, reqs, builds, routed, upload, probes>>

ReapplyTopicPath ==
  /\ universe = "path"
  /\ IsStr(applied.once) /\ applied.twice = Absent
  /\ applied' = [applied EXCEPT !.twice = topic_path(applied.once.s, applied.q, cfg)]
  /\ UNCHANGED <<now, cfg, universe, reqs, builds, routed, upload, probes>>

InitPath ==
  /\ now = 0
  /\ universe = "path"
  /\ cfg \in Configs("full")
  /\ reqs = <<>>
  /\ builds = <<>>
  /\ routed = <<>>
  /\ applied \in [t : PathTopics, p : PathProjects, q : PathProjects,
                  once : {Absent}, twice : {Absent}]
  /\ upload = <<>>
  /\ probes = <<>>

NextPath == ApplyTopicPath \/ ReapplyTopicPath

SpecPath == InitPath /\ [][NextPath]_vars

\* C21. Topic address resolution: for a namespace p, topic_path(t, p) is
\* projects/<p>/topics/<t> for a short name t and t itself when t already
\* starts with projects/, whatever project it names; applying topic_path to
\* the result with any namespace q returns the result unchanged.
C21_TopicPathResolves ==
  universe = "path" =>
    /\ (applied.once # Absent /\ applied.p # JNull)
         => applied.once =
              IF applied.t \in ShortTopics
              THEN JStr("projects/" \o applied.p.s \o "/topics/" \o applied.t)
              ELSE JStr(applied.t)
    /\ applied.twice # Absent => applied.twice = applied.once

\* a short name resolved against one namespace was resolved again against
\* another and came back unchanged
C21_Witness ==
  /\ universe = "path"
  /\ applied.t = ADT_ADMIT_TOPIC /\ applied.p = JStr("my-proj")
  /\ applied.q = JStr("proj-amb")
  /\ applied.once = JStr("projects/my-proj/topics/adt.admit")
  /\ applied.twice = applied.once

\* C22. Health endpoint: every GET /health is answered HTTP 200 with the plain
\* body "ok".
C22_HealthPlainOk ==
  \A i \in DOMAIN probes :
    probes[i].code = 200 /\ probes[i].body = [j |-> "text", s |-> "ok"]
\* the body is a push wrapper whose message carries no data field
WrapperWithoutData(body) ==
  /\ IsObj(body) /\ Has(body, "message") /\ IsObj(body.o.message)
  /\ ~Has(body.o.message, "data")

\* C23. Push wrapper without data: a push body whose `message` has no `data`
\* field is acknowledged with HTTP 200 and {status: ignored, reason: "no
\* data"}, with no fetch and no publish call.
C23_NoDataIgnored ==
  \A r \in DOMAIN reqs :
    LET st == reqs[r]
    IN (st.pc = "done" /\ WrapperWithoutData(st.body))
         => /\ RespCode(st) = 200
            /\ RespStatus(st) = "ignored"
            /\ RespField(st, "reason") = JStr("no data")
            /\ st.fetchCalls = <<>> /\ st.pubCalls = <<>>
\* C24. Observation routing by status alone: an Observation without category
\* is classified by its status only, letter case ignored: final to the
\* final-results topic, every other non-empty status to the
\* preliminary-results topic, and no status to no topic.
C24_ObservationByStatus ==
  (Routed /\ OfType("Observation") /\ ~Has(routed.res, "category"))
    => routed.topic =
         IF ~Truthy(Get(routed.res, "status")) THEN JNull
         ELSE ResultsTopic(StatusIs(routed.res, "final"))
\* --------------------------------------------------- occurred_at alone
\* occurred_at applied to one resource at some clock reading, over resources
\* that vary in the fields its chains read
Metas == {Absent, Meta, EmptyObj, JNull}
Periods == {Absent, JNull, Period(JStr(TS_A), JStr(TS_B)), Period(Absent, JStr(TS_B)),
            Period(JStr(TS_A), Absent)}
OccurResources ==
  {MkObj([resourceType |-> JStr("Observation"), id |-> JStr("obs1"),
          effectiveDateTime |-> eff, issued |-> iss, meta |-> m]) :
     eff \in {Absent, JStr(TS_A), JStr("")}, iss \in {Absent, JStr(TS_B)}, m \in Metas}
  \cup {MkObj([resourceType |-> JStr(rt), id |-> JStr("r1"), authoredOn |-> au,
               meta |-> m]) :
          rt \in {"ServiceRequest", "MedicationRequest"},
          au \in {Absent, JStr(TS_A), JStr("")}, m \in Metas}
  \cup {MkObj([resourceType |-> JStr("MedicationAdministration"), id |-> JStr("ma1"),
               effectiveDateTime |-> eff, effectivePeriod |-> per, meta |-> m]) :
          eff \in {Absent, JStr(TS_B)}, per \in Periods, m \in Metas}
  \cup {MkObj([resourceType |-> JStr("Procedure"), id |-> JStr("pr1"),
               performedDateTime |-> pd, performedPeriod |-> per, meta |-> m]) :
          pd \in {Absent, JStr(TS_B)}, per \in Periods, m \in Metas}
  \cup {MkObj([resourceType |-> JStr("Appointment"), id |-> JStr("ap1"), start |-> sta,
               meta |-> m]) : sta \in {Absent, JStr(TS_A)}, m \in Metas}
  \cup {MkObj([resourceType |-> JStr("DocumentReference"), id |-> JStr("dr1"),
               date |-> d, meta |-> m]) : d \in {Absent, JStr(TS_A)}, m \in Metas}
  \cup {MkObj([resourceType |-> JStr("Encounter"), id |-> JStr("en1"), status |-> st,
               period |-> per, meta |-> m]) :
          st \in {Absent, JStr("finished"), JStr("in-progress")}, per \in Periods,
          m \in Metas}

ApplyOccurredAt ==
  /\ universe = "occurred"
  /\ applied.out = Absent
  /\ applied' = [applied EXCEPT !.out = occurred_at(applied.res, now), !.at = now]
  /\ UNCHANGED <<now, cfg, universe, reqs, builds, routed, upload, probes>>

InitOccurred ==
  /\ now = 0
  /\ universe = "occurred"
  /\ cfg = CHOOSE c \in Configs("small") : TRUE
  /\ reqs = <<>>
  /\ builds = <<>>
  /\ routed = <<>>
  /\ applied \in [res : OccurResources, out : {Absent}, at : {0}]
  /\ upload = <<>>
  /\ probes = <<>>

NextOccurred == Tick \/ ApplyOccurredAt

SpecOccurred == InitOccurred /\ [][NextOccurred]_vars

\* the value at a key, or at a key of the object under a key; JNull when the
\* way there is missing or null
Field(res, k) == IF IsObj(res) /\ Has(res, k) THEN res.o[k] ELSE JNull
Sub(res, k1, k2) == Field(Field(res, k1), k2)
\* the first non-empty value of a chain of at most three, else the time read
FirstPresent(chain, c) ==
  IF \E i \in DOMAIN chain : Truthy(chain[i])
  THEN chain[CHOOSE i \in DOMAIN chain : Truthy(chain[i])
                                         /\ \A k \in 1..(i - 1) : ~Truthy(chain[k])]
  ELSE JStr(now_iso(c))
Occurred == universe = "occurred" /\ applied.out # Absent
OccurType(rt) == Get(applied.res, "resourceType") = JStr(rt)

\* C25. Encounter occurrence time: for an Encounter with status finished and a
\* period.end, occurred_at is period.end, also when period.start is present;
\* for every other Encounter it is period.start, else meta.lastUpdated, else
\* the current time. (Stated over Encounters whose meta is absent or an
\* object.)
C25_EncounterOccurrence ==
  (Occurred /\ OccurType("Encounter") /\ Field(applied.res, "meta") # JNull)
    => applied.out =
         IF Field(applied.res, "status") = JStr("finished")
            /\ Truthy(Sub(applied.res, "period", "end"))
         THEN Sub(applied.res, "period", "end")
         ELSE FirstPresent(<<Sub(applied.res, "period", "start"),
                             Sub(applied.res, "meta", "lastUpdated")>>, applied.at)

\* the chain of fields occurred_at is to read for a resource
ChainOf(res) ==
  LET meta == Sub(res, "meta", "lastUpdated")
      rt == Field(res, "resourceType")
  IN CASE rt = JStr("Observation") ->
            <<Field(res, "effectiveDateTime"), Field(res, "issued"), meta>>
       [] rt \in {JStr("ServiceRequest"), JStr("MedicationRequest")} ->
            <<Field(res, "authoredOn"), meta>>
       [] rt = JStr("MedicationAdministration") ->
            <<Field(res, "effectiveDateTime"), Sub(res, "effectivePeriod", "start"), meta>>
       [] rt = JStr("Procedure") ->
            <<Field(res, "performedDateTime"), Sub(res, "performedPeriod", "start"), meta>>
       [] rt = JStr("Appointment") -> <<Field(res, "start"), meta>>
       [] rt = JStr("DocumentReference") -> <<Field(res, "date"), meta>>
       [] OTHER -> <<meta>>

\* C26. Occurrence-time fallback chains: for every resource of a routed type
\* other than Encounter, occurred_at is the first non-empty field of its
\* type's chain, the current time when none is; it returns a non-empty
\* timestamp for every resource, one with a null meta or period included.
C26_FallbackChains ==
  Occurred =>
    /\ IsStr(applied.out) /\ applied.out.s # ""
    /\ ~OccurType("Encounter")
         => applied.out = FirstPresent(ChainOf(applied.res), applied.at)
\* C27. No internal retry and publish last: a request issues at most one fetch
\* call and at most one publish call, the publish only after the fetch has
\* returned; once a fetch or a publish has failed the request is answered and
\* holds no further call.
C27_NoInternalRetry ==
  \A r \in DOMAIN reqs :
    LET st == reqs[r]
    IN /\ Len(st.fetchCalls) <= 1 /\ Len(st.pubCalls) <= 1
       /\ (st.fetchCalls # <<>> /\ st.pubCalls # <<>>) => st.fetched = "returned"
       /\ st.pc = "fetch" => st.pubCalls = <<>>
       /\ st.fetched = "raised" => st.pc = "done" /\ st.pubCalls = <<>>
       /\ st.published = "raised" => st.pc = "done"
       /\ st.published = "returned" => st.pc = "done"

\* a request fetched once, published once, saw the publish fail and was
\* answered
C27_Witness ==
  \E r \in DOMAIN reqs :
    LET st == reqs[r]
    IN /\ st.pc = "done" /\ st.fetched = "returned" /\ st.published = "raised"
       /\ Len(st.fetchCalls) = 1 /\ Len(st.pubCalls) = 1
       /\ RespCode(st) = 500
\* what a request that ran alone would hold, given its own body, the resource
\* its fetch returned and its own outcomes: its locator, its topic, its
\* envelope built at some clock reading, its response
OwnTopic(st) == Route(Get(st.res, "resourceType"), st.res, DeliveryAction(st))
RanAlone(st) ==
  /\ st.fetchCalls # <<>> => st.fetchCalls = <<Get(st.payload, "name")>>
  /\ st.pubCalls # <<>> =>
       /\ Len(st.pubCalls) = 1
       /\ \E c \in 0..MaxClock :
            st.pubCalls[1].data = build_envelope(OwnTopic(st).s, st.res, c)
       /\ st.pubCalls[1].tpath = topic_path(OwnTopic(st).s, get_project_id(cfg), cfg).s
  /\ st.published = "returned" =>
       /\ RespStatus(st) = "ok"
       /\ RespField(st, "published_to") = OwnTopic(st)
       /\ RespField(st, "messageId") = st.token
  /\ (st.published = "raised" \/ st.fetched = "raised") =>
       RespStatus(st) = "error" /\ RespCode(st) = 500
  /\ (st.pc = "done" /\ st.fetched = "returned" /\ st.pubCalls = <<>>) =>
       RespStatus(st) = "ignored" /\ ~Truthy(OwnTopic(st))

\* C28. Request independence under concurrency: in every interleaving of the
\* fetch and publish suspension points of the requests in flight, each
\* request's calls, envelope and response are those of that request run alone
\* on its own payload, fetched resource and clock readings, and a step of one
\* request leaves every other request's state as it was.
C28_RequestIndependence ==
  /\ [](\A r \in DOMAIN reqs : RanAlone(reqs[r]))
  /\ [][\A r1, r2 \in DOMAIN reqs :
          r1 # r2 => reqs'[r1] = reqs[r1] \/ reqs'[r2] = reqs[r2]]_vars

\* two requests are suspended at their publish calls at once, holding
\* envelopes of different resources built at different times
C28_Witness ==
  /\ DOMAIN reqs = {1, 2}
  /\ reqs[1].pc = "publish" /\ reqs[2].pc = "publish"
  /\ reqs[1].res # reqs[2].res
  /\ reqs[1].body # reqs[2].body
  /\ reqs[1].pubCalls[1].data.published_at # reqs[2].pubCalls[1].data.published_at
  /\ reqs[1].pubCalls[1].data.resource = json_dumps(reqs[1].res)
  /\ reqs[2].pubCalls[1].data.resource = json_dumps(reqs[2].res)
\* the keys that make a payload an envelope
EnvelopeKeys == {"event_id", "topic", "resource_type", "resource", "provenance"}

\* C29. No re-publication of envelopes: a request whose decoded payload is a
\* JSON object with all of the keys event_id, topic, resource_type, resource
\* and provenance is answered HTTP 200 with status skipped, and it makes no
\* fetch call and no publish call.
C29_EnvelopeSkipped ==
  \A r \in DOMAIN reqs :
    LET st == reqs[r]
    IN (st.pc # "idle" /\ st.payload # Absent /\ IsObj(st.payload)
        /\ EnvelopeKeys \subseteq DOMAIN st.payload.o)
         => /\ st.pc = "done"
            /\ RespCode(st) = 200 /\ RespStatus(st) = "skipped"
            /\ st.fetchCalls = <<>> /\ st.pubCalls = <<>>

\* an envelope that also carries a locator and came wrapped with an update
\* attribute was skipped
C29_Witness ==
  \E r \in DOMAIN reqs :
    LET st == reqs[r]
    IN /\ st.pc = "done" /\ RespStatus(st) = "skipped"
       /\ st.payload = Payloads.envelope
       /\ Has(st.payload, "name")
       /\ AttrAction(st.body) = JStr("UpdateResource")
       /\ st.fetchCalls = <<>> /\ st.pubCalls = <<>>
\* ------------------------------------------------------ the batch uploader
\* upload_bundles(fhir_store, bundles_dir, max_qps, dry_run): one call, over
\* the files of the directory in order. `i` is the file at hand, `attempt` the
\* value of the retry loop's variable, `posts[k]` the number of post_bundle
\* calls issued for file k. The sleeps between attempts and files change
\* nothing that is counted.
\* `for attempt in range(4)`
Attempts == 4
\* the statuses answered with a backoff and another attempt
Retryable == {429, 500, 502, 503, 504}
\* what the record store may answer to a post
Statuses == {200, 201, 400, 404} \cup Retryable

\* on to the next file
NextFile(u) == [u EXCEPT !.i = @ + 1, !.attempt = 0]

\* dry run: the file at hand is read and parses, or does not
DryRunFile ==
  /\ universe = "upload"
  /\ upload.pc = "dry" /\ upload.i <= upload.n
  /\ \E ok \in BOOLEAN :
       upload' = IF ok THEN NextFile([upload EXCEPT !.success = @ + 1])
                 ELSE NextFile([upload EXCEPT !.failed = @ + 1])
  /\ UNCHANGED <<now, cfg, universe, reqs, builds, routed, applied, probes>>

\* get_access_token() returns, or raises and the exception leaves the call
TokenReturn ==
  /\ universe = "upload"
  /\ upload.pc = "token"
  /\ upload' = [upload EXCEPT !.pc = "loop"]
  /\ UNCHANGED <<now, cfg, universe, reqs, builds, routed, applied, probes>>

TokenRaise ==
  /\ universe = "upload"
  /\ upload.pc = "token"
  /\ upload' = [upload EXCEPT !.pc = "raised"]
  /\ UNCHANGED <<now, cfg, universe, reqs, builds, routed, applied, probes>>

\* the file at hand cannot be read or parsed: the except branch
LoadRaise ==
  /\ universe = "upload"
  /\ upload.pc = "loop" /\ upload.i <= upload.n
  /\ upload.attempt = 0 /\ upload.posts[upload.i] = 0
  /\ upload' = NextFile([upload EXCEPT !.failed = @ + 1])
  /\ UNCHANGED <<now, cfg, universe, reqs, builds, routed, applied, probes>>

\* post_bundle returns a response with this status
Posted(u, status) ==
  LET u1 == [u EXCEPT !.posts[u.i] = @ + 1]
  IN IF status < 300 THEN NextFile([u1 EXCEPT !.success = @ + 1])
     ELSE IF status \in Retryable
          THEN IF u.attempt + 1 < Attempts THEN [u1 EXCEPT !.attempt = @ + 1]
               ELSE NextFile(u1)
          ELSE NextFile([u1 EXCEPT !.failed = @ + 1])

PostReturn ==
  /\ universe = "upload"
  /\ upload.pc = "loop" /\ upload.i <= upload.n
  /\ \E status \in Statuses : upload' = Posted(upload, status)
  /\ UNCHANGED <<now, cfg, universe, reqs, builds, routed, applied, probes>>

\* post_bundle raises (connection, timeout): the except branch
PostRaise ==
  /\ universe = "upload"
  /\ upload.pc = "loop" /\ upload.i <= upload.n
  /\ upload' = NextFile([upload EXCEPT !.posts[upload.i] = @ + 1, !.failed = @ + 1])
  /\ UNCHANGED <<now, cfg, universe, reqs, builds, routed, applied, probes>>

\* the files are exhausted: return {"success", "failed", "errors"}
UploadReturn ==
  /\ universe = "upload"
  /\ upload.pc \in {"dry", "loop"} /\ upload.i = upload.n + 1
  /\ upload' = [upload EXCEPT !.pc = "returned"]
  /\ UNCHANGED <<now, cfg, universe, reqs, builds, routed, applied, probes>>

InitUpload ==
  /\ now = 0
  /\ universe = "upload"
  /\ cfg = CHOOSE c \in Configs("small") : TRUE
  /\ reqs = <<>>
  /\ builds = <<>>
  /\ routed = <<>>
  /\ applied = <<>>
  /\ probes = <<>>
  /\ \E n \in 0..MaxFiles, pc \in {"dry", "token"} :
       upload = [pc |-> pc, n |-> n, i |-> 1, attempt |-> 0, success |-> 0,
                 failed |-> 0, posts |-> [k \in 1..n |-> 0]]

NextUpload ==
  \/ DryRunFile \/ TokenReturn \/ TokenRaise \/ LoadRaise \/ PostReturn \/ PostRaise
  \/ UploadReturn

SpecUpload == InitUpload /\ [][NextUpload]_vars

\* C30. Upload accounting: when upload_bundles returns, success + failed is the
\* number of bundle files it iterated, whatever the record store answered, a
\* bundle answered with a retryable status on all four attempts included; no
\* bundle is posted more than four times.
C30_UploadAccounting ==
  (universe = "upload" /\ upload.pc = "returned")
    => /\ upload.success + upload.failed = upload.n
       /\ \A k \in DOMAIN upload.posts : upload.posts[k] <= 4
====
